---------------------------- MODULE Spec2Model ----------------------------
(***************************************************************************)
(* Og-Wcwidth: terminal column width of Unicode code points and strings.   *)
(*                                                                         *)
(* The module models                                                       *)
(*   - the generator of unicode/generateBitset.ts, which turns UCD lines   *)
(*     into the sparse bitset `combiningMap` (block index -> 32-bit mask); *)
(*   - the classifier wcwidth / wcwidthCjk of src/index.ts and the string  *)
(*     aggregators wcswidth / wcswidthCjk;                                 *)
(*   - the table-backed wcwidth / wcswidth of src/index.ts, which read the *)
(*     multi-level table TABLE.                                            *)
(*                                                                         *)
(* A JavaScript string is a sequence of UTF-16 code units; a JavaScript    *)
(* Set is a duplicate-free sequence in insertion order; a 32-bit word is   *)
(* the set of its set bit positions, and a stored mask is the signed       *)
(* 32-bit integer JavaScript's `|` produces.                               *)
(***************************************************************************)
EXTENDS Integers, Sequences, FiniteSets, TLC

VARIABLES
    pc,               \* where the generator process stands: "idle" (never
                      \* run), "main", "downloading", "returned", "threw",
                      \* "exited"
    downloads,        \* per URL the response and the promise of downloadFile
    rawUnicodeData,   \* the lines of UnicodeData.txt the generator read
    rawCoreProps,     \* the lines of DerivedCoreProperties.txt
    rawEAW,           \* the lines of EastAsianWidth.txt
    rawHangul,        \* the lines of HangulSyllableType.txt
    written,          \* the files the generator has written
    combiningMap,     \* combining.ts: the generated block index -> mask map
    ambiguousTs,      \* ambiguous.ts: the generated block index -> mask map
    exitCode,         \* << >> while the generator runs, <<code>> once it exited
    build,            \* which table.ts the build holds: 0 for the range-based
                      \* build (no table), k for the k-th of Tables
    op,               \* the exported function that has returned to the
                      \* caller, "none" when no call is outstanding
    arg,              \* its string argument (UTF-16 code units)
    lim,              \* its optional limit n: << >> is undefined, <<n>> is n
    result,           \* its return value
    classified        \* the characters it handed to the classifier, in order

\* the state of the generator and of its artifacts
generated == <<pc, downloads, rawUnicodeData, rawCoreProps, rawEAW, rawHangul,
               written, combiningMap, ambiguousTs, exitCode>>

\* the state of a call of the library
called == <<op, arg, lim, result, classified>>

vars == <<generated, build, called>>

-----------------------------------------------------------------------------
(* Bounds of the model.                                                    *)

\* longest string, in UTF-16 code units, passed to wcswidth / wcswidthCjk
MaxLen == 3

\* how far around every boundary of the classifier the code points are taken
Edge == 1

-----------------------------------------------------------------------------
(* 32-bit words, as JavaScript's bitwise operators see a number.           *)

Range(s) == {s[i] : i \in DOMAIN s}

\* the low 31 bits of an int32, as a natural number
Low31(m) == IF m < 0 THEN (m + 2^30) + 2^30 ELSE m

\* ToInt32 read as bits: the set of bit positions that are 1
ToBits(m) ==
    {b \in 0..30 : (Low31(m) \div (2^b)) % 2 = 1} \cup (IF m < 0 THEN {31} ELSE {})

\* the value of bit b in the word S
Weight(S, b) == IF b \in S THEN 2^b ELSE 0

\* the value of the low 31 bits of the word S
SumPow2(S) ==
    Weight(S, 0) + Weight(S, 1) + Weight(S, 2) + Weight(S, 3) +
    Weight(S, 4) + Weight(S, 5) + Weight(S, 6) + Weight(S, 7) +
    Weight(S, 8) + Weight(S, 9) + Weight(S, 10) + Weight(S, 11) +
    Weight(S, 12) + Weight(S, 13) + Weight(S, 14) + Weight(S, 15) +
    Weight(S, 16) + Weight(S, 17) + Weight(S, 18) + Weight(S, 19) +
    Weight(S, 20) + Weight(S, 21) + Weight(S, 22) + Weight(S, 23) +
    Weight(S, 24) + Weight(S, 25) + Weight(S, 26) + Weight(S, 27) +
    Weight(S, 28) + Weight(S, 29) + Weight(S, 30)

\* the signed 32-bit integer a bitwise operator returns
FromBits(S) ==
    IF 31 \in S THEN (SumPow2(S \ {31}) - 2^30) - 2^30 ELSE SumPow2(S)

\* a | b
BitOr(a, b) == FromBits(ToBits(a) \cup ToBits(b))

\* a << n  (n is taken modulo 32)
ShiftLeft(a, n) ==
    FromBits({b + (n % 32) : b \in {x \in ToBits(a) : x + (n % 32) <= 31}})

\* the number parseInt returns for a field that starts with no hexadecimal
\* digit; it stands apart from every code point
NaN == -1

\* ToInt32 of a code point or index: NaN becomes 0
ToInt32(x) == IF x = NaN THEN 0 ELSE x

\* a >> n on a code point or index (sign-propagating; floor division)
ShiftRight(a, n) == ToInt32(a) \div (2^(n % 32))

\* the bits of a >>> n: an unsigned result, kept as bits since it may
\* exceed the signed range
UShiftRightBits(a, n) ==
    {b - (n % 32) : b \in {x \in ToBits(a) : x >= (n % 32)}}

\* a & 31 on a number
And31(a) == ToInt32(a) % 32

\* a & b
BitAnd(a, b) == FromBits(ToBits(a) \cap ToBits(b))

-----------------------------------------------------------------------------
(* JavaScript strings.                                                     *)

IsHighSurrogate(u) == \HD800 <= u /\ u <= \HDBFF
IsLowSurrogate(u) == \HDC00 <= u /\ u <= \HDFFF

\* String.fromCodePoint(cp)
fromCodePoint(cp) ==
    IF cp <= \HFFFF THEN <<cp>>
    ELSE << \HD800 + ((cp - \H10000) \div \H400),
            \HDC00 + ((cp - \H10000) % \H400) >>

\* is a surrogate pair at position i (1-based) of s
PairAt(s, i) ==
    /\ i + 1 <= Len(s)
    /\ IsHighSurrogate(s[i])
    /\ IsLowSurrogate(s[i + 1])

\* s.codePointAt(0) of a non-empty s (the empty string gives undefined, which
\* the callers test first)
codePointAt0(s) ==
    IF PairAt(s, 1)
    THEN (s[1] - \HD800) * \H400 + (s[2] - \HDC00) + \H10000
    ELSE s[1]

\* the string iterator (for..of, Array.from): one string per code point, a
\* lone surrogate being a string of its own
RECURSIVE StringIterator(_)
StringIterator(s) ==
    IF Len(s) = 0 THEN << >>
    ELSE IF PairAt(s, 1)
         THEN <<SubSeq(s, 1, 2)>> \o StringIterator(SubSeq(s, 3, Len(s)))
         ELSE <<SubSeq(s, 1, 1)>> \o StringIterator(SubSeq(s, 2, Len(s)))

-----------------------------------------------------------------------------
(* The generator, unicode/generateBitset.ts.  A UCD file is the sequence   *)
(* of its data lines; a line is the record of the fields the parser's      *)
(* regular expression captures.                                            *)

\* Set.prototype.add / delete on an insertion-ordered set
SetAdd(set, x) == IF x \in Range(set) THEN set ELSE Append(set, x)
SetDelete(set, x) == SelectSeq(set, LAMBDA y : y # x)

\* for (let cp = start; cp <= end; cp++) set.add(cp): the code points of the
\* range not yet in the set are appended in ascending order
AddRange(set, start, end) ==
    set \o SelectSeq([i \in 1..(end - start + 1) |-> start + (i - 1)],
                     LAMBDA cp : cp \notin Range(set))

\* for (let cp = start; cp <= end; cp++) all.delete(cp)
DeleteRange(set, start, end) ==
    SelectSeq(set, LAMBDA cp : ~(start <= cp /\ cp <= end))

\* the k-th smallest (k from 0) element of a set of numbers
Rank(S, x) == Cardinality({y \in S : y < x})
Nth(S, k) == CHOOSE x \in S : Rank(S, x) = k

\* the elements of a sequence in order, each at its first occurrence only:
\* the Set that results from adding them one by one
AddEach(xs) ==
    LET first == {i \in DOMAIN xs : \A j \in 1..(i - 1) : xs[j] # xs[i]}
    IN [k \in 1..Cardinality(first) |-> xs[Nth(first, k - 1)]]

\* Cf (format) characters, except SOFT HYPHEN: every line is matched, and
\* the code point of a line with category Cf other than U+00AD is added
parseUnicodeData(data) ==
    LET lines == SelectSeq(data, LAMBDA l : l.category = "Cf" /\ l.cp # \H00AD)
    IN AddEach([i \in DOMAIN lines |-> lines[i].cp])

\* trimmed.match(...) is not null: the line has the form
\* `start[..end] ; property`; any other line is the record of its text
Matches(line) == "start" \in DOMAIN line

RECURSIVE parseCorePropsNoIgnorable(_, _, _)
\* a faulty variant of the loop of parseCoreProps: the property
\* Default_Ignorable_Code_Point is not among the three it accepts
parseCorePropsNoIgnorable(data, i, set) ==
    IF i > Len(data) THEN set
    ELSE parseCorePropsNoIgnorable(data, i + 1,
            IF ~Matches(data[i]) THEN set
            ELSE IF data[i].prop \in {"Grapheme_Extend", "Variation_Selector"}
            THEN AddRange(set, data[i].start, data[i].end) ELSE set)

RECURSIVE parseCorePropsFrom(_, _, _)
parseCorePropsFrom(data, i, set) ==
    IF i > Len(data) THEN set
    ELSE parseCorePropsFrom(data, i + 1,
            IF ~Matches(data[i]) THEN set
            ELSE IF data[i].prop \in {"Grapheme_Extend", "Variation_Selector",
                                      "Default_Ignorable_Code_Point"}
            THEN AddRange(set, data[i].start, data[i].end) ELSE set)

\* Grapheme_Extend, Variation_Selector, Default_Ignorable_Code_Point
parseCoreProps(data) == parseCorePropsFrom(data, 1, << >>)

RECURSIVE parseHangulSyllableTypeFrom(_, _, _)
parseHangulSyllableTypeFrom(data, i, set) ==
    IF i > Len(data) THEN set
    ELSE parseHangulSyllableTypeFrom(data, i + 1,
            IF ~Matches(data[i]) THEN set
            ELSE IF data[i].type \in {"V", "T"}
            THEN AddRange(set, data[i].start, data[i].end) ELSE set)

\* Jamo V (medial) and T (final)
parseHangulSyllableType(data) == parseHangulSyllableTypeFrom(data, 1, << >>)

\* EastAsianWidth.txt: the ranges of class A, in the order of the lines
parseEastAsianAmbiguous(data) ==
    LET lines == SelectSeq(data, LAMBDA l : Matches(l) /\ l.cls = "A")
    IN [i \in DOMAIN lines |-> <<lines[i].start, lines[i].end>>]

RECURSIVE expandRangesFrom(_, _, _)
expandRangesFrom(ranges, i, set) ==
    IF i > Len(ranges) THEN set
    ELSE expandRangesFrom(ranges, i + 1, AddRange(set, ranges[i][1], ranges[i][2]))

\* the code points of a list of ranges
expandRanges(ranges) == expandRangesFrom(ranges, 1, << >>)

\* adding the elements of the set `more`, in its order, to `set`
AddAll(set, more) == set \o SelectSeq(more, LAMBDA cp : cp \notin Range(set))

\* new Set([...cf, ...core, ...jamo])
ZeroWidthCandidates(cf, core, jamo) == AddAll(AddAll(AddAll(<< >>, cf), core), jamo)

\* a faulty variant of the carve-outs: the deletion of U+FFA0 is missing
ExclusionsWithoutHalfwidthFiller(all) ==
    DeleteRange(
      DeleteRange(
        SetDelete(SetDelete(SetDelete(all, \H00AD), \H115F), \H3164),
        \HFFF9, \HFFFB),
      \H13430, \H1343F)

\* the glibc carve-outs main deletes from the union
Exclusions(all) ==
    DeleteRange(
      DeleteRange(
        SetDelete(SetDelete(SetDelete(SetDelete(all, \H00AD), \H115F), \H3164),
                  \HFFA0),
        \HFFF9, \HFFFB),
      \H13430, \H1343F)

\* map[idx] ?? 0
Lookup(map, idx) == IF idx \in DOMAIN map THEN map[idx] ELSE 0

\* a faulty variant of BlockMask: the bit is cp & 15
BlockMaskHalfWord(cps, start) ==
    FromBits(ToBits(start)
             \cup UNION {ToBits(ShiftLeft(1, And31(cps[i]) % 16)) : i \in DOMAIN cps})

\* a faulty variant of BlockMask: map[idx] = 1 << bit, the earlier bits of
\* the block are lost
BlockMaskLastOnly(cps, start) ==
    IF Len(cps) = 0 THEN start ELSE ShiftLeft(1, And31(cps[Len(cps)]))

\* map[idx] = (map[idx] ?? 0) | (1 << bit) over the code points cps the loop
\* meets in one block: the OR of the start value and of every 1 << bit
BlockMask(cps, start) ==
    FromBits(ToBits(start)
             \cup UNION {ToBits(ShiftLeft(1, And31(cps[i]))) : i \in DOMAIN cps})

\* the sparse bitset: block index -> 32-bit mask; a block has an entry when
\* the loop met a code point with idx = cp >> 5
generateBitset(codePoints) ==
    [idx \in {ShiftRight(codePoints[i], 5) : i \in DOMAIN codePoints} |->
        BlockMask(SelectSeq(codePoints, LAMBDA cp : ShiftRight(cp, 5) = idx),
                  Lookup(<< >>, idx))]

\* main, up to the combining map it writes to combining.ts
main(rawUD, rawCP, rawH) ==
    generateBitset(
        Exclusions(
            ZeroWidthCandidates(parseUnicodeData(rawUD), parseCoreProps(rawCP),
                                parseHangulSyllableType(rawH))))

\* main, up to the ambiguous map it writes to ambiguous.ts
mainAmbiguous(rawE) ==
    generateBitset(expandRanges(parseEastAsianAmbiguous(rawE)))

\* the four files main downloads
Urls == {"UnicodeData", "CoreProps", "EAW", "Hangul"}

\* a download that has had no response yet
Pending ==
    [statusCode |-> 0, failed |-> FALSE, promise |-> "pending", data |-> << >>]

\* a faulty variant of downloadFile: the status code is not looked at, the
\* body of any response is resolved
downloadFileAnyStatus(statusCode, failed, body) ==
    [statusCode |-> statusCode, failed |-> failed,
     promise |-> IF failed THEN "rejected" ELSE "fulfilled",
     data |-> IF failed THEN << >> ELSE body]

\* downloadFile: the promise rejects on a request error and on a status
\* other than 200, and resolves with the body otherwise
downloadFile(statusCode, failed, body) ==
    [statusCode |-> statusCode, failed |-> failed,
     promise |-> IF failed \/ statusCode # 200 THEN "rejected" ELSE "fulfilled",
     data |-> IF failed \/ statusCode # 200 THEN << >> ELSE body]

-----------------------------------------------------------------------------
(* The classifier, src/index.ts (the port of Markus Kuhn's wcwidth.c).     *)

\* combining.ts, as the generator writes it: combiningMap[idx] ?? 0
combining(idx) == Lookup(combiningMap, idx)

\* ucs <= 0x10ffff && ((combining(ucs >> 5) >>> (ucs & 31)) & 1) !== 0
isCombining(ucs) ==
    /\ ucs <= \H10FFFF
    /\ 0 \in UShiftRightBits(combining(ShiftRight(ucs, 5)), And31(ucs))

\* sorted list of non-overlapping intervals of East Asian Ambiguous characters
ambiguous ==
    <<
      <<\H00A1, \H00A1>>, <<\H00A4, \H00A4>>, <<\H00A7, \H00A8>>,
      <<\H00AA, \H00AA>>, <<\H00AE, \H00AE>>, <<\H00B0, \H00B4>>,
      <<\H00B6, \H00BA>>, <<\H00BC, \H00BF>>, <<\H00C6, \H00C6>>,
      <<\H00D0, \H00D0>>, <<\H00D7, \H00D8>>, <<\H00DE, \H00E1>>,
      <<\H00E6, \H00E6>>, <<\H00E8, \H00EA>>, <<\H00EC, \H00ED>>,
      <<\H00F0, \H00F0>>, <<\H00F2, \H00F3>>, <<\H00F7, \H00FA>>,
      <<\H00FC, \H00FC>>, <<\H00FE, \H00FE>>, <<\H0101, \H0101>>,
      <<\H0111, \H0111>>, <<\H0113, \H0113>>, <<\H011B, \H011B>>,
      <<\H0126, \H0127>>, <<\H012B, \H012B>>, <<\H0131, \H0133>>,
      <<\H0138, \H0138>>, <<\H013F, \H0142>>, <<\H0144, \H0144>>,
      <<\H0148, \H014B>>, <<\H014D, \H014D>>, <<\H0152, \H0153>>,
      <<\H0166, \H0167>>, <<\H016B, \H016B>>, <<\H01CE, \H01CE>>,
      <<\H01D0, \H01D0>>, <<\H01D2, \H01D2>>, <<\H01D4, \H01D4>>,
      <<\H01D6, \H01D6>>, <<\H01D8, \H01D8>>, <<\H01DA, \H01DA>>,
      <<\H01DC, \H01DC>>, <<\H0251, \H0251>>, <<\H0261, \H0261>>,
      <<\H02C4, \H02C4>>, <<\H02C7, \H02C7>>, <<\H02C9, \H02CB>>,
      <<\H02CD, \H02CD>>, <<\H02D0, \H02D0>>, <<\H02D8, \H02DB>>,
      <<\H02DD, \H02DD>>, <<\H02DF, \H02DF>>, <<\H0391, \H03A1>>,
      <<\H03A3, \H03A9>>, <<\H03B1, \H03C1>>, <<\H03C3, \H03C9>>,
      <<\H0401, \H0401>>, <<\H0410, \H044F>>, <<\H0451, \H0451>>,
      <<\H2010, \H2010>>, <<\H2013, \H2016>>, <<\H2018, \H2019>>,
      <<\H201C, \H201D>>, <<\H2020, \H2022>>, <<\H2024, \H2027>>,
      <<\H2030, \H2030>>, <<\H2032, \H2033>>, <<\H2035, \H2035>>,
      <<\H203B, \H203B>>, <<\H203E, \H203E>>, <<\H2074, \H2074>>,
      <<\H207F, \H207F>>, <<\H2081, \H2084>>, <<\H20AC, \H20AC>>,
      <<\H2103, \H2103>>, <<\H2105, \H2105>>, <<\H2109, \H2109>>,
      <<\H2113, \H2113>>, <<\H2116, \H2116>>, <<\H2121, \H2122>>,
      <<\H2126, \H2126>>, <<\H212B, \H212B>>, <<\H2153, \H2154>>,
      <<\H215B, \H215E>>, <<\H2160, \H216B>>, <<\H2170, \H2179>>,
      <<\H2190, \H2199>>, <<\H21B8, \H21B9>>, <<\H21D2, \H21D2>>,
      <<\H21D4, \H21D4>>, <<\H21E7, \H21E7>>, <<\H2200, \H2200>>,
      <<\H2202, \H2203>>, <<\H2207, \H2208>>, <<\H220B, \H220B>>,
      <<\H220F, \H220F>>, <<\H2211, \H2211>>, <<\H2215, \H2215>>,
      <<\H221A, \H221A>>, <<\H221D, \H2220>>, <<\H2223, \H2223>>,
      <<\H2225, \H2225>>, <<\H2227, \H222C>>, <<\H222E, \H222E>>,
      <<\H2234, \H2237>>, <<\H223C, \H223D>>, <<\H2248, \H2248>>,
      <<\H224C, \H224C>>, <<\H2252, \H2252>>, <<\H2260, \H2261>>,
      <<\H2264, \H2267>>, <<\H226A, \H226B>>, <<\H226E, \H226F>>,
      <<\H2282, \H2283>>, <<\H2286, \H2287>>, <<\H2295, \H2295>>,
      <<\H2299, \H2299>>, <<\H22A5, \H22A5>>, <<\H22BF, \H22BF>>,
      <<\H2312, \H2312>>, <<\H2460, \H24E9>>, <<\H24EB, \H254B>>,
      <<\H2550, \H2573>>, <<\H2580, \H258F>>, <<\H2592, \H2595>>,
      <<\H25A0, \H25A1>>, <<\H25A3, \H25A9>>, <<\H25B2, \H25B3>>,
      <<\H25B6, \H25B7>>, <<\H25BC, \H25BD>>, <<\H25C0, \H25C1>>,
      <<\H25C6, \H25C8>>, <<\H25CB, \H25CB>>, <<\H25CE, \H25D1>>,
      <<\H25E2, \H25E5>>, <<\H25EF, \H25EF>>, <<\H2605, \H2606>>,
      <<\H2609, \H2609>>, <<\H260E, \H260F>>, <<\H2614, \H2615>>,
      <<\H261C, \H261C>>, <<\H261E, \H261E>>, <<\H2640, \H2640>>,
      <<\H2642, \H2642>>, <<\H2660, \H2661>>, <<\H2663, \H2665>>,
      <<\H2667, \H266A>>, <<\H266C, \H266D>>, <<\H266F, \H266F>>,
      <<\H273D, \H273D>>, <<\H2776, \H277F>>, <<\HE000, \HF8FF>>,
      <<\HFFFD, \HFFFD>>, <<\HF0000, \HFFFFD>>, <<\H100000, \H10FFFD>>
    >>

RECURSIVE bisearchLoopStartOnly(_, _, _, _)
\* a faulty variant of the loop: `ucs > table[mid][0]` where the code
\* compares with the end of the interval
bisearchLoopStartOnly(ucs, table, min, max) ==
    IF max >= min
    THEN LET mid == (min + max) \div 2 IN
         IF ucs > table[mid + 1][1] THEN bisearchLoopStartOnly(ucs, table, mid + 1, max)
         ELSE IF ucs < table[mid + 1][1] THEN bisearchLoopStartOnly(ucs, table, min, mid - 1)
         ELSE 1
    ELSE 0

RECURSIVE bisearchLoop(_, _, _, _)
\* the while loop of bisearch; min, max and mid are 0-based as in the code
bisearchLoop(ucs, table, min, max) ==
    IF max >= min
    THEN LET mid == (min + max) \div 2 IN
         IF ucs > table[mid + 1][2] THEN bisearchLoop(ucs, table, mid + 1, max)
         ELSE IF ucs < table[mid + 1][1] THEN bisearchLoop(ucs, table, min, mid - 1)
         ELSE 1
    ELSE 0

RECURSIVE bisearchWindowsNoAdvance(_, _, _, _, _)
\* a faulty variant of the loop: `min = mid` where the code has `min = mid + 1`
bisearchWindowsNoAdvance(ucs, table, min, max, fuel) ==
    IF fuel > 0 /\ max >= min
    THEN LET mid == (min + max) \div 2 IN
         <<<<min, max>>>> \o
         (IF ucs > table[mid + 1][2]
          THEN bisearchWindowsNoAdvance(ucs, table, mid, max, fuel - 1)
          ELSE IF ucs < table[mid + 1][1]
          THEN bisearchWindowsNoAdvance(ucs, table, min, mid - 1, fuel - 1)
          ELSE << >>)
    ELSE << >>

RECURSIVE bisearchWindows(_, _, _, _, _)
\* the while loop of bisearch, step by step: the pairs <<min, max>> with
\* which its body is entered, for at most `fuel` iterations
bisearchWindows(ucs, table, min, max, fuel) ==
    IF fuel > 0 /\ max >= min
    THEN LET mid == (min + max) \div 2 IN
         <<<<min, max>>>> \o
         (IF ucs > table[mid + 1][2]
          THEN bisearchWindows(ucs, table, mid + 1, max, fuel - 1)
          ELSE IF ucs < table[mid + 1][1]
          THEN bisearchWindows(ucs, table, min, mid - 1, fuel - 1)
          ELSE << >>)
    ELSE << >>

\* the iterations of a call of bisearch: none when the range test returns 0
bisearchTrace(ucs, table) ==
    IF ucs < table[1][1] \/ ucs > table[Len(table)][2] THEN << >>
    ELSE bisearchWindows(ucs, table, 0, Len(table) - 1, Len(table) + 1)

\* a faulty variant of bisearch: the range test reads `ucs <= table[min][0]`
bisearchExclusiveStart(ucs, table) ==
    IF ucs <= table[1][1] \/ ucs > table[Len(table)][2] THEN 0
    ELSE bisearchLoop(ucs, table, 0, Len(table) - 1)

\* binary search in an interval table
bisearch(ucs, table) ==
    IF ucs < table[1][1] \/ ucs > table[Len(table)][2] THEN 0
    ELSE bisearchLoop(ucs, table, 0, Len(table) - 1)

\* the range rules of wcwidth from `ucs < 0x1100` on, with the upper bound of
\* the CJK .. Yi rule as given
RangeRules(ucs, yiEnd, inclusive) ==
    IF ucs < \H1100 THEN 1
    ELSE IF ucs <= \H115F \/ ucs = \H2329 \/ ucs = \H232A THEN 2
    ELSE IF ucs = \H3164 THEN 1
    ELSE IF ucs >= \H2E80 /\ (IF inclusive THEN ucs <= yiEnd ELSE ucs < yiEnd)
            /\ ucs # \H303F THEN 2
    ELSE IF \/ (\HAC00 <= ucs /\ ucs <= \HD7A3)
            \/ (\HF900 <= ucs /\ ucs <= \HFAFF)
            \/ (\HFE10 <= ucs /\ ucs <= \HFE19)
            \/ (\HFE30 <= ucs /\ ucs <= \HFE6F)
            \/ (\HFF00 <= ucs /\ ucs <= \HFF60)
            \/ (\HFFE0 <= ucs /\ ucs <= \HFFE6)
            \/ (\H20000 <= ucs /\ ucs <= \H2FFFD)
            \/ (\H30000 <= ucs /\ ucs <= \H3FFFD)
         THEN 2 ELSE 1

\* a faulty variant of wcwidth: the ambiguous table is consulted in the
\* default mode as well
wcwidthAmbiguousWide(char) ==
    IF Len(char) = 0 THEN -1
    ELSE LET ucs == codePointAt0(char) IN
         IF ucs = 0 THEN 0
         ELSE IF ucs < 32 \/ (ucs >= \H7F /\ ucs < \HA0) THEN -1
         ELSE IF isCombining(ucs) THEN 0
         ELSE IF bisearch(ucs, ambiguous) # 0 THEN 2
         ELSE RangeRules(ucs, \HA4CF, TRUE)

\* a faulty variant of wcwidth: the combining test comes before the test for
\* control characters
wcwidthCombiningFirst(char) ==
    IF Len(char) = 0 THEN -1
    ELSE LET ucs == codePointAt0(char) IN
         IF isCombining(ucs) THEN 0
         ELSE IF ucs = 0 THEN 0
         ELSE IF ucs < 32 \/ (ucs >= \H7F /\ ucs < \HA0) THEN -1
         ELSE RangeRules(ucs, \HA4CF, TRUE)

\* a faulty variant of wcwidth: the CJK .. Yi rule reads `ucs < 0xa4cf`
wcwidthYiOffByOne(char) ==
    IF Len(char) = 0 THEN -1
    ELSE LET ucs == codePointAt0(char) IN
         IF ucs = 0 THEN 0
         ELSE IF ucs < 32 \/ (ucs >= \H7F /\ ucs < \HA0) THEN -1
         ELSE IF isCombining(ucs) THEN 0
         ELSE RangeRules(ucs, \HA4CF, FALSE)

\* a faulty variant of wcwidth: the combining test comes after the range rules
\* and is reached only by a code point they leave narrow
wcwidthRangesFirst(char) ==
    IF Len(char) = 0 THEN -1
    ELSE LET ucs == codePointAt0(char) IN
         IF ucs = 0 THEN 0
         ELSE IF ucs < 32 \/ (ucs >= \H7F /\ ucs < \HA0) THEN -1
         ELSE IF RangeRules(ucs, \HA4CF, TRUE) = 2 THEN 2
         ELSE IF isCombining(ucs) THEN 0
         ELSE 1

\* the width of the first code point of char; -1 when there is none
wcwidth(char) ==
    IF Len(char) = 0 THEN -1
    ELSE LET ucs == codePointAt0(char) IN
         IF ucs = 0 THEN 0
         ELSE IF ucs < 32 \/ (ucs >= \H7F /\ ucs < \HA0) THEN -1
         ELSE IF isCombining(ucs) THEN 0
         ELSE IF ucs < \H1100 THEN 1
         ELSE IF ucs <= \H115F \/ ucs = \H2329 \/ ucs = \H232A THEN 2
         ELSE IF ucs = \H3164 THEN 1
         ELSE IF ucs >= \H2E80 /\ ucs <= \HA4CF /\ ucs # \H303F THEN 2
         ELSE IF \/ (\HAC00 <= ucs /\ ucs <= \HD7A3)
                 \/ (\HF900 <= ucs /\ ucs <= \HFAFF)
                 \/ (\HFE10 <= ucs /\ ucs <= \HFE19)
                 \/ (\HFE30 <= ucs /\ ucs <= \HFE6F)
                 \/ (\HFF00 <= ucs /\ ucs <= \HFF60)
                 \/ (\HFFE0 <= ucs /\ ucs <= \HFFE6)
                 \/ (\H20000 <= ucs /\ ucs <= \H2FFFD)
                 \/ (\H30000 <= ucs /\ ucs <= \H3FFFD)
              THEN 2 ELSE 1

RECURSIVE wcswidthLoopNoCheck(_, _, _, _, _, _)
\* a faulty variant of the loop: `if (w < 0) return -1` is missing
wcswidthLoopNoCheck(chars, i, n, width, count, calls) ==
    IF i > Len(chars) THEN [value |-> width, classified |-> calls]
    ELSE IF n # << >> /\ count >= n[1] THEN [value |-> width, classified |-> calls]
    ELSE wcswidthLoopNoCheck(chars, i + 1, n, width + wcwidth(chars[i]),
                             count + 1, Append(calls, chars[i]))

RECURSIVE wcswidthLoopCodeUnits(_, _, _, _, _, _)
\* a faulty variant of the loop: count advances by char.length, so that n
\* counts UTF-16 code units
wcswidthLoopCodeUnits(chars, i, n, width, count, calls) ==
    IF i > Len(chars) THEN [value |-> width, classified |-> calls]
    ELSE IF n # << >> /\ count >= n[1] THEN [value |-> width, classified |-> calls]
    ELSE LET w == wcwidth(chars[i]) IN
         IF w < 0 THEN [value |-> -1, classified |-> Append(calls, chars[i])]
         ELSE wcswidthLoopCodeUnits(chars, i + 1, n, width + w,
                                    count + Len(chars[i]), Append(calls, chars[i]))

RECURSIVE wcswidthLoopOverwrites(_, _, _, _, _, _)
\* a faulty variant of the loop of wcswidth: `width = w` where the code has
\* `width += w`
wcswidthLoopOverwrites(chars, i, n, width, count, calls) ==
    IF i > Len(chars) THEN [value |-> width, classified |-> calls]
    ELSE IF n # << >> /\ count >= n[1] THEN [value |-> width, classified |-> calls]
    ELSE LET w == wcwidth(chars[i]) IN
         IF w < 0 THEN [value |-> -1, classified |-> Append(calls, chars[i])]
         ELSE wcswidthLoopOverwrites(chars, i + 1, n, w, count + 1,
                                     Append(calls, chars[i]))

RECURSIVE wcswidthLoop(_, _, _, _, _, _)
\* the for..of loop of wcswidth from the i-th character on; the record holds
\* the value returned and the characters handed to wcwidth
wcswidthLoop(chars, i, n, width, count, calls) ==
    IF i > Len(chars) THEN [value |-> width, classified |-> calls]
    ELSE IF n # << >> /\ count >= n[1] THEN [value |-> width, classified |-> calls]
    ELSE LET w == wcwidth(chars[i]) IN
         IF w < 0 THEN [value |-> -1, classified |-> Append(calls, chars[i])]
         ELSE wcswidthLoop(chars, i + 1, n, width + w, count + 1,
                           Append(calls, chars[i]))

\* wcswidth(str, n), with the calls it made
wcswidthRun(str, n) ==
    IF Len(str) = 0 THEN [value |-> 0, classified |-> << >>]
    ELSE wcswidthLoop(StringIterator(str), 1, n, 0, 0, << >>)

wcswidth(str, n) == wcswidthRun(str, n).value

\* a faulty variant of wcwidthCjk: the test `ucs === undefined` is missing;
\* every comparison of bisearch with undefined is false, so that the search
\* reports a hit
wcwidthCjkNoUndefinedTest(char) ==
    IF Len(char) = 0 THEN 2
    ELSE IF bisearch(codePointAt0(char), ambiguous) # 0 THEN 2
    ELSE wcwidth(char)

\* a faulty variant of wcwidthCjk: a character wcwidth rejects is given one
\* column
wcwidthCjkNeverInvalid(char) ==
    IF Len(char) = 0 THEN -1
    ELSE IF bisearch(codePointAt0(char), ambiguous) # 0 THEN 2
    ELSE IF wcwidth(char) < 0 THEN 1
    ELSE wcwidth(char)

\* wcwidth, except that East Asian Ambiguous characters have width 2
wcwidthCjk(char) ==
    IF Len(char) = 0 THEN -1
    ELSE IF bisearch(codePointAt0(char), ambiguous) # 0 THEN 2
    ELSE wcwidth(char)

RECURSIVE wcswidthCjkLoopDefaultMode(_, _, _, _, _, _)
\* a faulty variant of the loop of wcswidthCjk: it classifies with wcwidth
wcswidthCjkLoopDefaultMode(chars, i, n, width, count, calls) ==
    IF i > Len(chars) THEN [value |-> width, classified |-> calls]
    ELSE IF n # << >> /\ count >= n[1] THEN [value |-> width, classified |-> calls]
    ELSE LET w == wcwidth(chars[i]) IN
         IF w < 0 THEN [value |-> -1, classified |-> Append(calls, chars[i])]
         ELSE wcswidthCjkLoopDefaultMode(chars, i + 1, n, width + w, count + 1,
                                         Append(calls, chars[i]))

RECURSIVE wcswidthCjkLoop(_, _, _, _, _, _)
wcswidthCjkLoop(chars, i, n, width, count, calls) ==
    IF i > Len(chars) THEN [value |-> width, classified |-> calls]
    ELSE IF n # << >> /\ count >= n[1] THEN [value |-> width, classified |-> calls]
    ELSE LET w == wcwidthCjk(chars[i]) IN
         IF w < 0 THEN [value |-> -1, classified |-> Append(calls, chars[i])]
         ELSE wcswidthCjkLoop(chars, i + 1, n, width + w, count + 1,
                              Append(calls, chars[i]))

\* wcswidthCjk(str, n), with the calls it made
wcswidthCjkRun(str, n) ==
    IF Len(str) = 0 THEN [value |-> 0, classified |-> << >>]
    ELSE wcswidthCjkLoop(StringIterator(str), 1, n, 0, 0, << >>)

wcswidthCjk(str, n) == wcswidthCjkRun(str, n).value

-----------------------------------------------------------------------------
(* The table-backed classifier, src/index.ts lines 1-86.  table.ts is not  *)
(* part of the sources: the buffers below follow the layout the            *)
(* specification gives (five uint32 header fields, stage-1 offsets,        *)
(* stage-2 rows, stage-3 rows of classification bytes, 0 = no row).        *)

\* the classification byte of the decision procedure: 0, 1, 2, or 0xFF for
\* an unprintable code point; the zero-width set is U+0300..U+036F, U+200B
TableWidth(cp) ==
    IF cp = 0 THEN 0
    ELSE IF cp < 32 \/ (cp >= \H7F /\ cp < \HA0) THEN \HFF
    ELSE IF (\H0300 <= cp /\ cp <= \H036F) \/ cp = \H200B THEN 0
    ELSE IF cp < \H1100 THEN 1
    ELSE IF cp <= \H115F \/ cp \in {\H2329, \H232A} THEN 2
    ELSE IF cp = \H3164 THEN 1
    ELSE IF \H2E80 <= cp /\ cp <= \HA4CF /\ cp # \H303F THEN 2
    ELSE IF \/ (\HAC00 <= cp /\ cp <= \HD7A3) \/ (\HF900 <= cp /\ cp <= \HFAFF)
            \/ (\HFE10 <= cp /\ cp <= \HFE19) \/ (\HFE30 <= cp /\ cp <= \HFE6F)
            \/ (\HFF00 <= cp /\ cp <= \HFF60) \/ (\HFFE0 <= cp /\ cp <= \HFFE6)
            \/ (\H20000 <= cp /\ cp <= \H2FFFD) \/ (\H30000 <= cp /\ cp <= \H3FFFD)
         THEN 2 ELSE 1

\* the four bytes of a uint32, little-endian
Uint32LE(v) ==
    << v % 256, (v \div 256) % 256, (v \div 65536) % 256, v \div 16777216 >>

\* the byte at offset off of a table with shift1 = 16, shift2 = 8, mask2 =
\* mask3 = 0xFF whose stage-1 array has bound1 entries and that holds a
\* stage-3 row for each of the 256-code-point blocks `covered` (block =
\* cp >> 8): header, stage-1 offsets, one stage-2 row of 256 offsets per
\* plane with a covered block, one stage-3 row of 256 bytes per block
TableByte(bound1, covered, off) ==
    LET planes == {b \div 256 : b \in covered}
        stage2 == 20 + 4 * bound1
        stage3 == stage2 + 1024 * Cardinality(planes)
    IN IF off < 20
       THEN Uint32LE(<<16, bound1, 8, \HFF, \HFF>>[(off \div 4) + 1])[(off % 4) + 1]
       ELSE IF off < stage2
       THEN LET p == (off - 20) \div 4 IN
            Uint32LE(IF p \in planes THEN stage2 + 1024 * Rank(planes, p) ELSE 0)
                [(off % 4) + 1]
       ELSE IF off < stage3
       THEN LET p == Nth(planes, (off - stage2) \div 1024)
                b == 256 * p + (((off - stage2) % 1024) \div 4)
            IN Uint32LE(IF b \in covered THEN stage3 + 256 * Rank(covered, b) ELSE 0)
                   [((off - stage2) % 4) + 1]
       ELSE TableWidth(256 * Nth(covered, (off - stage3) \div 256)
                         + ((off - stage3) % 256))

BuildTable(bound1, covered) ==
    [i \in 1..(20 + 4 * bound1
                 + 1024 * Cardinality({b \div 256 : b \in covered})
                 + 256 * Cardinality(covered)) |->
        TableByte(bound1, covered, i - 1)]

\* the buffers a build may hold: one covering Latin, combining marks, Jamo,
\* CJK, the specials and the last block of every plane it spans; one with
\* fewer rows; one whose stage-1 array stops after the BMP
Tables ==
    << BuildTable(17, {\H00, \H03, \H11, \H20, \H30, \H4E, \HFF, \H1F6, \H10FF}),
       BuildTable(17, {\H00, \H4E}),
       BuildTable(1, {\H00, \H03, \HFF}) >>

\* the Uint8Array TABLE of the build (0-based: TABLE[i] is element i + 1)
TABLE == Tables[build]

\* view.getUint32(byteOffset, true)
getUint32(byteOffset) ==
    TABLE[byteOffset + 1] + 256 * TABLE[byteOffset + 2]
      + 65536 * TABLE[byteOffset + 3] + 16777216 * TABLE[byteOffset + 4]

\* a >>> n of a code point
UShiftRight(a, n) == FromBits(UShiftRightBits(a, n))

\* a faulty variant of the lookup: a stage-2 entry of 0 is followed
wcwidthTableLookupNoRowTest(cp) ==
    LET shift1 == getUint32(0)
        bound == getUint32(4)
        index1 == UShiftRight(cp, shift1)
    IN IF index1 >= bound THEN \HFF
       ELSE LET lookup1 == getUint32(20 + index1 * 4) IN
            IF lookup1 = 0 THEN \HFF
            ELSE LET shift2 == getUint32(8)
                     mask2 == getUint32(12)
                     index2 == BitAnd(UShiftRight(cp, shift2), mask2)
                     lookup2 == getUint32(lookup1 + index2 * 4)
                     mask3 == getUint32(16)
                     index3 == BitAnd(cp, mask3)
                 IN TABLE[lookup2 + index3 + 1]

\* low-level lookup: 0, 1, 2 if valid, else 0xFF
wcwidthTableLookup(cp) ==
    LET shift1 == getUint32(0)
        bound == getUint32(4)
        index1 == UShiftRight(cp, shift1)
    IN IF index1 >= bound THEN \HFF
       ELSE LET lookup1 == getUint32(20 + index1 * 4) IN
            IF lookup1 = 0 THEN \HFF
            ELSE LET shift2 == getUint32(8)
                     mask2 == getUint32(12)
                     index2 == BitAnd(UShiftRight(cp, shift2), mask2)
                     lookup2 == getUint32(lookup1 + index2 * 4)
                 IN IF lookup2 = 0 THEN \HFF
                    ELSE LET mask3 == getUint32(16)
                             index3 == BitAnd(cp, mask3)
                         IN TABLE[lookup2 + index3 + 1]

\* a faulty variant of the table-backed wcwidth: the sentinel is returned as is
wcwidthTableRaw(char) ==
    IF Len(char) = 0 THEN -1
    ELSE wcwidthTableLookup(codePointAt0(char))

\* the table-backed wcwidth(char)
wcwidthTable(char) ==
    IF Len(char) = 0 THEN -1
    ELSE LET res == wcwidthTableLookup(codePointAt0(char)) IN
         IF res = \HFF THEN -1 ELSE res

RECURSIVE wcswidthTableLoop(_, _, _, _, _)
\* the for loop of the table-backed wcswidth over chars = Array.from(str);
\* i is 0-based as in the code
wcswidthTableLoop(chars, i, n, width, calls) ==
    IF ~(i < Len(chars)) THEN [value |-> width, classified |-> calls]
    ELSE IF n # << >> /\ i >= n[1] THEN [value |-> width, classified |-> calls]
    ELSE LET w == wcwidthTable(chars[i + 1]) IN
         IF w < 0 THEN [value |-> -1, classified |-> Append(calls, chars[i + 1])]
         ELSE wcswidthTableLoop(chars, i + 1, n, width + w,
                                Append(calls, chars[i + 1]))

\* the table-backed wcswidth(str, n), with the calls it made
wcswidthTableRun(str, n) ==
    IF Len(str) = 0 THEN [value |-> 0, classified |-> << >>]
    ELSE wcswidthTableLoop(StringIterator(str), 0, n, 0, << >>)

wcswidthTable(str, n) == wcswidthTableRun(str, n).value

-----------------------------------------------------------------------------
(* The inputs the model draws.                                             *)

\* UnicodeData.txt: lines of Unicode 17.0.0 (code point; general category)
UnicodeDataFormat ==
    << [cp |-> \H0041, category |-> "Lu"], [cp |-> \H00AD, category |-> "Cf"],
       [cp |-> \H200B, category |-> "Cf"], [cp |-> \HFEFF, category |-> "Cf"],
       [cp |-> \HFFF9, category |-> "Cf"], [cp |-> \HFFFA, category |-> "Cf"],
       [cp |-> \HFFFB, category |-> "Cf"] >>
    \o [i \in 1..16 |-> [cp |-> \H13430 + (i - 1), category |-> "Cf"]]

\* lines no UCD release holds: NUL, the C0 controls, DEL and the C1 controls
\* given as format characters
UnicodeDataControls ==
    [i \in 1..32 |-> [cp |-> i - 1, category |-> "Cf"]]
    \o [i \in 1..33 |-> [cp |-> \H7F + (i - 1), category |-> "Cf"]]

\* DerivedCoreProperties.txt (start..end ; property)
CorePropsExtend ==
    << [start |-> \H0041, end |-> \H005A, prop |-> "Alphabetic"],
       [start |-> \H0300, end |-> \H036F, prop |-> "Grapheme_Extend"],
       [start |-> \H05BF, end |-> \H05BF, prop |-> "Grapheme_Extend"],
       [start |-> \H302A, end |-> \H302D, prop |-> "Grapheme_Extend"],
       [start |-> \HFE00, end |-> \HFE0F, prop |-> "Variation_Selector"] >>

CorePropsIgnorable ==
    << [start |-> \H00AD, end |-> \H00AD, prop |-> "Default_Ignorable_Code_Point"],
       [start |-> \H115F, end |-> \H1160, prop |-> "Default_Ignorable_Code_Point"],
       [start |-> \H2060, end |-> \H2064, prop |-> "Default_Ignorable_Code_Point"],
       [start |-> \H3164, end |-> \H3164, prop |-> "Default_Ignorable_Code_Point"],
       [start |-> \HFFA0, end |-> \HFFA0, prop |-> "Default_Ignorable_Code_Point"],
       [start |-> \HFFF0, end |-> \HFFF8, prop |-> "Default_Ignorable_Code_Point"],
       [start |-> \HE0100, end |-> \HE01EF, prop |-> "Default_Ignorable_Code_Point"] >>

\* HangulSyllableType.txt (start..end ; type)
HangulJamo ==
    << [start |-> \H1100, end |-> \H115F, type |-> "L"],
       [start |-> \H1160, end |-> \H11A7, type |-> "V"],
       [start |-> \HD7CB, end |-> \HD7FB, type |-> "T"] >>

\* EastAsianWidth.txt (start..end ; class)
EastAsianWidth ==
    << [start |-> \H0020, end |-> \H007E, cls |-> "Na"],
       [start |-> \H00A1, end |-> \H00A1, cls |-> "A"],
       [start |-> \H00A7, end |-> \H00A8, cls |-> "A"],
       [start |-> \H0410, end |-> \H044F, cls |-> "A"],
       [start |-> \H2460, end |-> \H24E9, cls |-> "A"],
       [start |-> \H3000, end |-> \H3000, cls |-> "F"],
       [start |-> \HFFFD, end |-> \HFFFD, cls |-> "A"] >>

\* malformed lines: a code point field that is no hexadecimal number and a
\* line with one field only, in UnicodeData.txt; lines that do not have the
\* form `start[..end] ; property` in the other files
UnicodeDataMalformed ==
    << [cp |-> NaN, category |-> "Cf"], [cp |-> NaN, category |-> "undefined"] >>
CorePropsMalformed ==
    << [text |-> "0300-036F Grapheme_Extend"], [text |-> "<html>"] >>
EastAsianWidthMalformed ==
    << [text |-> "00B0 A"] >>

\* the body of a response with a status other than 200
ErrorPage == << [text |-> "<html>Not Found</html>"] >>

\* the bodies a server may send with status 200
Bodies(url) ==
    CASE url = "UnicodeData" ->
           {UnicodeDataFormat, UnicodeDataFormat \o UnicodeDataMalformed}
      [] url = "CoreProps" ->
           {CorePropsExtend \o CorePropsIgnorable,
            CorePropsMalformed \o CorePropsIgnorable}
      [] url = "EAW" -> {EastAsianWidth, EastAsianWidthMalformed \o EastAsianWidth}
      [] url = "Hangul" -> {HangulJamo}

\* what https.get may report for a URL: a response with a status code and a
\* body, or a request error
Responses(url) ==
    {[statusCode |-> 200, failed |-> FALSE, body |-> b] : b \in Bodies(url)}
    \cup {[statusCode |-> 404, failed |-> FALSE, body |-> ErrorPage],
          [statusCode |-> 0, failed |-> TRUE, body |-> << >>]}

\* a file is any selection of its chunks, in order
UnicodeDataFiles ==
    {(IF 1 \in S THEN UnicodeDataFormat ELSE << >>)
       \o (IF 2 \in S THEN UnicodeDataControls ELSE << >>) : S \in SUBSET {1, 2}}
CorePropsFiles ==
    {(IF 1 \in S THEN CorePropsExtend ELSE << >>)
       \o (IF 2 \in S THEN CorePropsIgnorable ELSE << >>) : S \in SUBSET {1, 2}}
HangulFiles == {<< >>, HangulJamo}

\* the boundaries of the classifier's rules and of the ambiguous table
Boundaries ==
    { 0, 32, \H7F, \HA0, \H1100, \H115F, \H2329, \H232A, \H3164, \H303F,
      \H2E80, \HA4CF, \HAC00, \HD7A3, \HF900, \HFAFF, \HFE10, \HFE19,
      \HFE30, \HFE6F, \HFF00, \HFF60, \HFFE0, \HFFE6, \H20000, \H2FFFD,
      \H30000, \H3FFFD, \HD800, \HDBFF, \HDC00, \HDFFF, \HFFFF, \H10000,
      \H10FFFF }
    \cup {ambiguous[i][1] : i \in DOMAIN ambiguous}
    \cup {ambiguous[i][2] : i \in DOMAIN ambiguous}

\* the code points of the tests and of the README
Samples ==
    { \H07, \H1F, \H41, \H61, \H9F, \HAD, \HB0, \H0300, \H036F, \H05BF,
      \H03A9, \H1160, \H11A7, \H200B, \H2060, \H2064, \H3000, \H302A, \H302D,
      \H3053, \H3093, \H306B, \H3061, \H306F, \H4E00, \H597D, \HD7CB, \HFDD0,
      \HFDEF, \HFE00, \HFE13, \HFEFF, \HFF01, \HFF21, \HFFA0, \HFFF9, \HFFFA,
      \HFFFB, \HFFFE, \H13430, \H1343F, \H1F1E6, \H1F600, \H1F60A, \H1FFFE,
      \H1FFFF, \H21000, \HE0100, \HE01EF, \H10FFFE }

\* every control character and every code point main deletes by a loop
Swept == (0..31) \cup (\H7F..\H9F) \cup (\HFFF9..\HFFFB) \cup (\H13430..\H1343F)

CodePoints ==
    {cp \in UNION {(b - Edge)..(b + Edge) : b \in Boundaries \cup Samples} :
        0 <= cp /\ cp <= \H10FFFF}
    \cup Swept

\* the one-character strings handed to wcwidth, and the empty string
Chars == {<< >>} \cup {fromCodePoint(cp) : cp \in CodePoints}

\* UTF-16 code units of the strings handed to wcswidth: BEL, "a", DEGREE
\* SIGN, COMBINING GRAVE ACCENT, U+4E00, and the two halves of U+1F60A
Units == {\H07, \H61, \HB0, \H0300, \H4E00, \HD83D, \HDE0A}

RECURSIVE Concat(_)
Concat(ss) == IF Len(ss) = 0 THEN << >> ELSE Head(ss) \o Concat(Tail(ss))

\* README: the emoji followed by the five hiragana
Konnichiwa ==
    Concat([i \in 1..6 |->
             fromCodePoint(<<\H1F60A, \H3053, \H3093, \H306B, \H3061, \H306F>>[i])])

Strings ==
    UNION {[1..k -> Units] : k \in 0..MaxLen} \cup {Konnichiwa}

\* the optional argument n: undefined, or a count
Limits == {<< >>} \cup {<<k>> : k \in 0..MaxLen}

-----------------------------------------------------------------------------
(* The state machine: the generator has run on some UCD files and written  *)
(* combining.ts; then the exported functions are called in any order, each *)
(* call returning before the caller makes the next one.                    *)

\* the range-based build: the generator has run to its end on the UCD files
\* it downloaded and has written combining.ts and ambiguous.ts
InitRanges ==
    /\ rawUnicodeData \in UnicodeDataFiles
    /\ rawCoreProps \in CorePropsFiles
    /\ rawEAW = EastAsianWidth
    /\ rawHangul \in HangulFiles
    /\ downloads = [u \in Urls |->
          downloadFile(200, FALSE,
             CASE u = "UnicodeData" -> rawUnicodeData
               [] u = "CoreProps" -> rawCoreProps
               [] u = "EAW" -> rawEAW
               [] u = "Hangul" -> rawHangul)]
    /\ combiningMap = main(rawUnicodeData, rawCoreProps, rawHangul)
    /\ ambiguousTs = mainAmbiguous(rawEAW)
    /\ written = {"combining.ts", "ambiguous.ts"}
    /\ pc = "exited"
    /\ exitCode = <<0>>
    /\ build = 0

\* the generator before it has run: nothing downloaded, nothing written
NotGenerated ==
    /\ downloads = [u \in Urls |-> Pending]
    /\ rawUnicodeData = << >>
    /\ rawCoreProps = << >>
    /\ rawEAW = << >>
    /\ rawHangul = << >>
    /\ combiningMap = << >>
    /\ ambiguousTs = << >>
    /\ written = {}
    /\ exitCode = << >>

\* the table-backed build: it reads table.ts, and no generator belongs to it
InitTable ==
    /\ NotGenerated
    /\ pc = "idle"
    /\ build \in DOMAIN Tables

Init ==
    /\ InitRanges \/ InitTable
    /\ op = "none"
    /\ arg = << >>
    /\ lim = << >>
    /\ result = 0
    /\ classified = << >>

\* a faulty variant of the call of wcwidth: the accessor of combining.ts
\* stores the default of a missing block (`combiningMap[idx] ??= 0`)
CallWcwidthStoresDefault ==
    /\ build = 0
    /\ op = "none"
    /\ \E char \in Chars :
          /\ op' = "wcwidth"
          /\ arg' = char
          /\ lim' = << >>
          /\ result' = wcwidth(char)
          /\ classified' = << >>
          /\ combiningMap' =
                IF Len(char) = 0 \/ codePointAt0(char) = 0
                   \/ ShiftRight(codePointAt0(char), 5) \in DOMAIN combiningMap
                THEN combiningMap
                ELSE combiningMap @@ (ShiftRight(codePointAt0(char), 5) :> 0)
    /\ UNCHANGED <<pc, downloads, rawUnicodeData, rawCoreProps, rawEAW, rawHangul,
                   written, ambiguousTs, exitCode, build>>

CallWcwidth ==
    /\ build = 0
    /\ op = "none"
    /\ \E char \in Chars :
          /\ op' = "wcwidth"
          /\ arg' = char
          /\ lim' = << >>
          /\ result' = wcwidth(char)
          /\ classified' = << >>
    /\ UNCHANGED <<generated, build>>

CallWcwidthCjk ==
    /\ build = 0
    /\ op = "none"
    /\ \E char \in Chars :
          /\ op' = "wcwidthCjk"
          /\ arg' = char
          /\ lim' = << >>
          /\ result' = wcwidthCjk(char)
          /\ classified' = << >>
    /\ UNCHANGED <<generated, build>>

CallWcswidth ==
    /\ build = 0
    /\ op = "none"
    /\ \E str \in Strings, n \in Limits :
          /\ op' = "wcswidth"
          /\ arg' = str
          /\ lim' = n
          /\ \E run \in {wcswidthRun(str, n)} :
                /\ result' = run.value
                /\ classified' = run.classified
    /\ UNCHANGED <<generated, build>>

CallWcswidthCjk ==
    /\ build = 0
    /\ op = "none"
    /\ \E str \in Strings, n \in Limits :
          /\ op' = "wcswidthCjk"
          /\ arg' = str
          /\ lim' = n
          /\ \E run \in {wcswidthCjkRun(str, n)} :
                /\ result' = run.value
                /\ classified' = run.classified
    /\ UNCHANGED <<generated, build>>

CallWcwidthTable ==
    /\ build # 0
    /\ op = "none"
    /\ \E char \in Chars :
          /\ op' = "wcwidthTable"
          /\ arg' = char
          /\ lim' = << >>
          /\ result' = wcwidthTable(char)
          /\ classified' = << >>
    /\ UNCHANGED <<generated, build>>

CallWcswidthTable ==
    /\ build # 0
    /\ op = "none"
    /\ \E str \in Strings, n \in Limits :
          /\ op' = "wcswidthTable"
          /\ arg' = str
          /\ lim' = n
          /\ \E run \in {wcswidthTableRun(str, n)} :
                /\ result' = run.value
                /\ classified' = run.classified
    /\ UNCHANGED <<generated, build>>

\* the caller has taken the value; the module is ready for the next call
Return ==
    /\ op # "none"
    /\ op' = "none"
    /\ arg' = << >>
    /\ lim' = << >>
    /\ result' = 0
    /\ classified' = << >>
    /\ UNCHANGED <<generated, build>>

Next ==
    \/ CallWcwidth
    \/ CallWcwidthCjk
    \/ CallWcswidth
    \/ CallWcswidthCjk
    \/ CallWcwidthTable
    \/ CallWcswidthTable
    \/ Return

Spec == Init /\ [][Next]_vars

\* the classifier with the bitset generated from the whole of the input
\* files, and the table-backed builds
CompleteInit ==
    /\ Init
    /\ build = 0
       => /\ rawUnicodeData = UnicodeDataFormat \o UnicodeDataControls
          /\ rawCoreProps = CorePropsExtend \o CorePropsIgnorable
          /\ rawHangul = HangulJamo

CompleteSpec == CompleteInit /\ [][Next]_vars

-----------------------------------------------------------------------------
(* The generator as a process: main starts the four downloads and awaits   *)
(* them all; the rest of main runs when all have resolved; a rejection     *)
(* reaches the handler of main().catch.                                    *)

\* node runs the script: main is about to be called
GenInit ==
    /\ NotGenerated
    /\ pc = "main"
    /\ build = 0
    /\ op = "none"
    /\ arg = << >>
    /\ lim = << >>
    /\ result = 0
    /\ classified = << >>

\* main up to its await: the four requests are under way
Main ==
    /\ pc = "main"
    /\ pc' = "downloading"
    /\ UNCHANGED <<downloads, rawUnicodeData, rawCoreProps, rawEAW, rawHangul,
                   written, combiningMap, ambiguousTs, exitCode, build, called>>

\* the callbacks of https.get for one URL: the promise of downloadFile
\* settles.  A rejection is handled before any further callback runs.
Respond(url) ==
    /\ pc = "downloading"
    /\ downloads[url].promise = "pending"
    /\ \A u \in Urls : downloads[u].promise # "rejected"
    /\ \E r \in Responses(url) :
          downloads' = [downloads EXCEPT
                           ![url] = downloadFile(r.statusCode, r.failed, r.body)]
    /\ UNCHANGED <<pc, rawUnicodeData, rawCoreProps, rawEAW, rawHangul,
                   written, combiningMap, ambiguousTs, exitCode, build, called>>

\* main after its await, all four promises resolved: parse, build the two
\* maps, write combining.ts, then ambiguous.ts; writeFileSync may throw
Resume ==
    /\ pc = "downloading"
    /\ \A u \in Urls : downloads[u].promise = "fulfilled"
    /\ rawUnicodeData' = downloads["UnicodeData"].data
    /\ rawCoreProps' = downloads["CoreProps"].data
    /\ rawEAW' = downloads["EAW"].data
    /\ rawHangul' = downloads["Hangul"].data
    /\ \E thrown \in {"nowhere", "combining.ts", "ambiguous.ts"} :
          /\ combiningMap' = IF thrown = "combining.ts" THEN combiningMap
                             ELSE main(rawUnicodeData', rawCoreProps', rawHangul')
          /\ ambiguousTs' = IF thrown = "nowhere" THEN mainAmbiguous(rawEAW')
                            ELSE ambiguousTs
          /\ written' = CASE thrown = "combining.ts" -> written
                          [] thrown = "ambiguous.ts" -> written \cup {"combining.ts"}
                          [] thrown = "nowhere" ->
                               written \cup {"combining.ts", "ambiguous.ts"}
          /\ pc' = IF thrown = "nowhere" THEN "returned" ELSE "threw"
    /\ UNCHANGED <<downloads, exitCode, build, called>>

\* main().catch: the promise of main has rejected, by a rejected download or
\* by an exception of the rest of main
Catch ==
    /\ \/ pc = "threw"
       \/ pc = "downloading" /\ \E u \in Urls : downloads[u].promise = "rejected"
    /\ pc' = "exited"
    /\ exitCode' = <<1>>
    /\ UNCHANGED <<downloads, rawUnicodeData, rawCoreProps, rawEAW, rawHangul,
                   written, combiningMap, ambiguousTs, build, called>>

\* main has returned and nothing is left to do: the process ends
Exit ==
    /\ pc = "returned"
    /\ pc' = "exited"
    /\ exitCode' = <<0>>
    /\ UNCHANGED <<downloads, rawUnicodeData, rawCoreProps, rawEAW, rawHangul,
                   written, combiningMap, ambiguousTs, build, called>>

GenNext ==
    \/ Main
    \/ \E url \in Urls : Respond(url)
    \/ Resume
    \/ Catch
    \/ Exit

GenSpec == GenInit /\ [][GenNext]_vars

-----------------------------------------------------------------------------
(* The data structures on their own: generateBitset of both generators    *)
(* applied to sets of code points, the accessor of ambiguous.ts applied to *)
(* every block index, and bisearch applied to interval tables.             *)

\* the largest number of code points in a set handed to generateBitset
MaxSet == 3

\* code points at the edges of a block and of the code space: the first and
\* the last bit of block 0, the first bit of block 1, a combining mark, the
\* first and the last bit of the last block
Pool == {0, 31, 32, \H0300, \H10FFE0, \H10FFFF}

\* a JavaScript Set of at most MaxSet code points, in each insertion order
CodePointSets ==
    {set \in UNION {[1..n -> Pool] : n \in 0..MaxSet} :
        \A i, j \in DOMAIN set : i # j => set[i] # set[j]}

\* the earlier generator: (0x10ffff >> 5) + 1
maxIndex == ShiftRight(\H10FFFF, 5) + 1

\* the earlier generator's dense bitset: new Array(maxIndex).fill(0), then
\* bitset[idx] |= 1 << bit for each code point; a chunk no code point
\* falls in keeps the 0 it was filled with
generateBitsetDense(codePoints) ==
    LET touched == {ShiftRight(codePoints[i], 5) : i \in DOMAIN codePoints}
    IN  [idx \in 0..(maxIndex - 1) |->
            IF idx \in touched
            THEN BlockMask(SelectSeq(codePoints,
                                     LAMBDA cp : ShiftRight(cp, 5) = idx), 0)
            ELSE 0]

\* the earlier main: for (i = 0; i < bitset.length; i++)
\*                     if (bitset[i] !== 0) combiningMap[i] = bitset[i]
combiningMapOf(bitset) ==
    [i \in {j \in 0..(maxIndex - 1) : bitset[j] # 0} |-> bitset[i]]

\* ambiguous.ts: the sparse part of the East Asian Ambiguous bitset
ambiguousMap ==
    (5 :> -136362606) @@ (6 :> -1048510400) @@ (7 :> 1468872515) @@
    (8 :> 134873090) @@ (9 :> -2129786688) @@ (10 :> 798487) @@
    (11 :> 2240) @@ (14 :> 357908480) @@ (18 :> 131072) @@
    (19 :> 2) @@ (22 :> -1358877040) @@ (28 :> -131072) @@
    (29 :> -130053) @@ (30 :> 1019) @@ (32 :> -65534) @@
    (34 :> 196607) @@ (256 :> 863567872) @@ (257 :> 1210908919) @@
    (259 :> -2146435072) @@ (260 :> 30) @@ (261 :> 4096) @@
    (264 :> 4719144) @@ (265 :> 2118) @@ (266 :> 2014838784) @@
    (267 :> 67047423) @@ (268 :> 67043328) @@ (269 :> 50331648) @@
    (270 :> 1310720) @@ (271 :> 128) @@ (272 :> -467498611) @@
    (273 :> 821059497) @@ (274 :> 266496) @@ (275 :> 52467) @@
    (276 :> 35651788) @@ (277 :> -2147483616) @@ (280 :> 262144) @@
    (295 :> -1025) @@ (298 :> -61441) @@ (299 :> 1048575) @@
    (300 :> 3997695) @@ (301 :> 818676731) @@ (302 :> 248259) @@
    (303 :> 32828) @@ (304 :> 1345372768) @@ (306 :> 5) @@
    (307 :> 47035) @@ (313 :> 536870912) @@ (315 :> -4194304) @@
    (2047 :> 536870912) @@ (32767 :> 1073741823) @@ (34815 :> 1073741823)

\* a faulty variant of the accessor: block 295 is taken for dense
ambiguousAccessorDense295(idx) ==
    IF \/ idx = 33
       \/ 291 <= idx /\ idx <= 297
       \/ 1792 <= idx /\ idx <= 1991
       \/ 30720 <= idx /\ idx <= 34814 /\ idx # 32767
    THEN -1
    ELSE Lookup(ambiguousMap, idx)

\* ambiguous.ts, function ambiguous(idx): -1 for a block of a dense range,
\* ambiguousMap[idx] ?? 0 otherwise
ambiguousAccessor(idx) ==
    IF \/ idx = 33
       \/ 291 <= idx /\ idx <= 297 /\ idx # 295
       \/ 1792 <= idx /\ idx <= 1991
       \/ 30720 <= idx /\ idx <= 34814 /\ idx # 32767
    THEN -1
    ELSE Lookup(ambiguousMap, idx)

\* JSON.stringify(map, null, 2): an object lists its integer keys in
\* ascending order, whatever the order they were created in
stringify(map) ==
    [k \in 1..Cardinality(DOMAIN map) |->
        <<Nth(DOMAIN map, k - 1), map[Nth(DOMAIN map, k - 1)]>>]

\* every block index of the code space
Blocks == 0..ShiftRight(\H10FFFF, 5)

\* no generator has run and no function has been called
BitsetInit ==
    /\ NotGenerated
    /\ pc = "idle"
    /\ build = 0
    /\ op = "none"
    /\ arg = << >>
    /\ lim = << >>
    /\ result = 0
    /\ classified = << >>

\* generateBitset of src/unicode/generateBitset.ts on a set of code points
CallGenerateBitset ==
    /\ op = "none"
    /\ \E codePoints \in CodePointSets :
          /\ op' = "generateBitset"
          /\ arg' = codePoints
          /\ result' = generateBitset(codePoints)
    /\ UNCHANGED <<generated, build, lim, classified>>

\* generateBitset of src/generateBitset.ts on a set of code points, and the
\* loop of its main that keeps the chunks other than 0
CallGenerateBitsetDense ==
    /\ op = "none"
    /\ \E codePoints \in CodePointSets :
          /\ op' = "generateBitsetDense"
          /\ arg' = codePoints
          /\ result' = combiningMapOf(generateBitsetDense(codePoints))
    /\ UNCHANGED <<generated, build, lim, classified>>

\* ambiguous(idx) of ambiguous.ts on a block index
CallAmbiguous ==
    /\ op = "none"
    /\ \E idx \in Blocks :
          /\ op' = "ambiguous"
          /\ arg' = <<idx>>
          /\ result' = ambiguousAccessor(idx)
    /\ UNCHANGED <<generated, build, lim, classified>>

\* the code points a search is made for: those within Edge of an end of an
\* interval, the ends of the code space, and every code point up to U+27FF
\* (beyond it the table has four intervals)
SearchPoints ==
    UNION {((ambiguous[k][1] - Edge)..(ambiguous[k][1] + Edge))
           \cup ((ambiguous[k][2] - Edge)..(ambiguous[k][2] + Edge)) :
           k \in DOMAIN ambiguous}
    \cup {0, \H10FFFF} \cup (0..\H27FF)

\* the tables searched: the table of wcwidthCjk and its shortest prefixes
SearchTables ==
    {SubSeq(ambiguous, 1, n) : n \in {1, 2, 3, Len(ambiguous)}}

\* bisearch(ucs, table)
CallBisearch ==
    /\ op = "none"
    /\ \E ucs \in SearchPoints, table \in SearchTables :
          /\ op' = "bisearch"
          /\ arg' = <<ucs, table>>
          /\ result' = bisearch(ucs, table)
    /\ UNCHANGED <<generated, build, lim, classified>>

BitsetNext ==
    \/ CallGenerateBitset
    \/ CallGenerateBitsetDense
    \/ CallAmbiguous
    \/ CallBisearch
    \/ Return

BitsetSpec == BitsetInit /\ [][BitsetNext]_vars

-----------------------------------------------------------------------------
(* Properties.  A state with op # "none" is the return of one call: arg    *)
(* and lim are what was passed, result what came back, classified the      *)
(* characters the aggregator classified on the way.                        *)

\* the code point a one-character call was about
CalledCp == codePointAt0(arg)

\* bit cp & 31 of combining(cp >> 5) is set, read off the stored mask
InBitset(cp) == (cp % 32) \in ToBits(Lookup(combiningMap, cp \div 32))

\* the C0 controls without NUL, DEL and the C1 controls
IsControl(cp) == (1 <= cp /\ cp <= 31) \/ (\H7F <= cp /\ cp <= \H9F)

\* the wide ranges as the specification lists them
InWideRange(cp) ==
    \/ \H1100 <= cp /\ cp <= \H115F
    \/ cp \in {\H2329, \H232A}
    \/ \H2E80 <= cp /\ cp <= \HA4CF /\ cp \notin {\H303F, \H3164}
    \/ \HAC00 <= cp /\ cp <= \HD7A3
    \/ \HF900 <= cp /\ cp <= \HFAFF
    \/ \HFE10 <= cp /\ cp <= \HFE19
    \/ \HFE30 <= cp /\ cp <= \HFE6F
    \/ \HFF00 <= cp /\ cp <= \HFF60
    \/ \HFFE0 <= cp /\ cp <= \HFFE6
    \/ \H20000 <= cp /\ cp <= \H2FFFD
    \/ \H30000 <= cp /\ cp <= \H3FFFD

\* cp lies in an interval of the East Asian Ambiguous table (linear scan)
InAmbiguous(cp) ==
    \E i \in DOMAIN ambiguous : ambiguous[i][1] <= cp /\ cp <= ambiguous[i][2]

\* the code points main deletes from the zero-width candidates
Excluded ==
    {\H00AD, \H115F, \H3164, \HFFA0} \cup (\HFFF9..\HFFFB) \cup (\H13430..\H1343F)

RECURSIVE SumSeq(_)
SumSeq(ws) == IF Len(ws) = 0 THEN 0 ELSE Head(ws) + SumSeq(Tail(ws))

\* the widths of a sequence of one-character strings
Widths(chars) == [i \in DOMAIN chars |-> wcwidth(chars[i])]

\* the positions of the characters of width -1
Invalid(chars) == {i \in DOMAIN chars : wcwidth(chars[i]) < 0}

\* the least element of a non-empty set of numbers
Least(S) == CHOOSE x \in S : \A y \in S : x <= y

\* the first min(n, length) code points of a string
FirstCodePoints(str, n) ==
    SubSeq(StringIterator(str), 1,
           IF n < Len(StringIterator(str)) THEN n ELSE Len(StringIterator(str)))

\* C1: wcwidth, range-based or table-backed, returns for every one-character
\* string and for the empty string one value, and that value is -1, 0, 1 or 2.
C1_WidthIsOneOfFour ==
    op \in {"wcwidth", "wcwidthTable"} => result \in {-1, 0, 1, 2}

\* the empty string has been classified
C1_Witness ==
    op = "wcwidth" /\ arg = << >> /\ result = -1

\* C2: wcwidth and wcwidthCjk of U+0000 are 0, and wcwidth of every code
\* point in [1, 31] or [0x7F, 0x9F] is -1, whatever the combining bitset
\* holds for it.
C2_NulAndControls ==
    /\ (op \in {"wcwidth", "wcwidthCjk"} /\ arg = <<0>>) => result = 0
    /\ (op = "wcwidth" /\ Len(arg) = 1 /\ IsControl(arg[1])) => result = -1

\* a control character that the bitset holds has been classified
C2_Witness ==
    /\ op = "wcwidth" /\ arg = <<\H9F>>
    /\ InBitset(\H9F)
    /\ result = -1

C4_CombiningIsZero ==
    (/\ op = "wcwidth" /\ Len(arg) > 0
     /\ CalledCp # 0 /\ ~IsControl(CalledCp)
     /\ InBitset(CalledCp))
    => result = 0

\* U+302A, inside [0x2E80, 0xA4CF] and in the bitset, has been classified
C4_Witness ==
    /\ op = "wcwidth" /\ arg = <<\H302A>>
    /\ InBitset(\H302A)
    /\ InWideRange(\H302A)
    /\ result = 0

C6_EmojiIsWide ==
    /\ (/\ op = "wcwidth"
        /\ arg \in {fromCodePoint(\H1F60A), fromCodePoint(\H1F600),
                    fromCodePoint(\H1F1E6)})
       => result = 2
    /\ (op = "wcswidth" /\ arg = Konnichiwa /\ lim = << >>) => result = 12

\* C7: a code point outside every range and bitset of the classifier, also
\* one for which the table lookup yields the sentinel, has width 1, never -1.
C7_UnclassifiedIsNarrow ==
    /\ (/\ op = "wcwidth" /\ Len(arg) > 0
        /\ CalledCp # 0 /\ ~IsControl(CalledCp)
        /\ ~InBitset(CalledCp) /\ ~InWideRange(CalledCp))
       => result = 1
    /\ (/\ op = "wcwidthTable" /\ Len(arg) > 0
        /\ CalledCp # 0 /\ ~IsControl(CalledCp)
        /\ wcwidthTableLookup(CalledCp) = \HFF)
       => result = 1

\* C8: without a limit, wcswidth of a non-empty string is the sum of the
\* widths of its code points when none is -1; otherwise it is -1 and the
\* first code point of width -1 is the last one classified.
C8_SumOrFirstInvalid ==
    (op = "wcswidth" /\ lim = << >> /\ Len(arg) > 0)
    => LET chars == StringIterator(arg)
       IN IF Invalid(chars) = {}
          THEN result = SumSeq(Widths(chars))
          ELSE /\ result = -1
               /\ classified = SubSeq(chars, 1, Least(Invalid(chars)))

\* a string with a control character before its end has been measured
C8_Witness ==
    /\ op = "wcswidth" /\ lim = << >>
    /\ arg = <<\H61, \H07, \H4E00>>
    /\ result = -1
    /\ classified = << <<\H61>>, <<\H07>> >>

\* C9: wcswidth(s, n) is the result for the first min(n, length) code points
\* of s, a surrogate pair counting once; wcswidth(s, 0) and wcswidth of the
\* empty string are 0, and neither classifies a code point.
C9_LimitCountsCodePoints ==
    op = "wcswidth" =>
      /\ lim # << >> =>
           LET chars == FirstCodePoints(arg, lim[1])
           IN result = (IF Invalid(chars) = {} THEN SumSeq(Widths(chars)) ELSE -1)
      /\ (lim = <<0>> \/ Len(arg) = 0) => (result = 0 /\ classified = << >>)

\* a surrogate pair and a control character measured with n = 1: the pair
\* uses up the limit and the control character is not reached
C9_Witness ==
    /\ op = "wcswidth" /\ lim = <<1>>
    /\ arg = <<\HD83D, \HDE0A, \H07>>
    /\ result = wcwidth(<<\HD83D, \HDE0A>>)
    /\ classified = << <<\HD83D, \HDE0A>> >>

\* C10: wcwidthCjk is 2 on a code point in an interval of the ambiguous table
\* and equals wcwidth on every other code point.
C10_CjkIsTwoOrWcwidth ==
    (op = "wcwidthCjk" /\ Len(arg) > 0)
    => result = (IF InAmbiguous(CalledCp) THEN 2 ELSE wcwidth(arg))

\* the first code point of the ambiguous table has been classified
C10_Witness ==
    /\ op = "wcwidthCjk" /\ arg = <<\H00A1>>
    /\ InAmbiguous(\H00A1)
    /\ result = 2
    /\ wcwidth(arg) = 1

\* the characters a call with argument str and limit n may classify
WithinLimit(str, n) ==
    IF n = << >> THEN StringIterator(str) ELSE FirstCodePoints(str, n[1])

\* a one-unit string that holds a surrogate code unit
IsLoneSurrogate(char) ==
    Len(char) = 1 /\ (IsHighSurrogate(char[1]) \/ IsLowSurrogate(char[1]))

\* C11: on a code point of the ambiguous table wcwidth is not 2, so that
\* wcwidthCjk and wcwidth differ there, and they differ nowhere else; the
\* default mode, wcswidth included, gives no ambiguous code point width 2.
C11_ModesDifferOnAmbiguousOnly ==
    /\ (op = "wcwidth" /\ Len(arg) > 0 /\ InAmbiguous(CalledCp))
       => (result # 2 /\ result # wcwidthCjk(arg))
    /\ (op = "wcwidthCjk" /\ Len(arg) > 0)
       => (result # wcwidth(arg) <=> InAmbiguous(CalledCp))
    /\ (op = "wcswidth" /\ lim = << >> /\ Len(StringIterator(arg)) = 1
        /\ InAmbiguous(CalledCp))
       => result \in {0, 1}

\* DEGREE SIGN has been classified in the default mode: 1, where the CJK
\* mode gives 2
C11_Witness ==
    /\ op = "wcwidth" /\ arg = <<\H00B0>>
    /\ InAmbiguous(\H00B0)
    /\ result = 1
    /\ wcwidthCjk(arg) = 2

\* C12: wcswidthCjk(s, n) is the aggregation of wcswidth with wcwidthCjk as
\* classifier: 0 for the empty string and for n = 0, -1 when one of the first
\* min(n, length) code points has wcwidthCjk -1, their sum otherwise.
C12_CjkAggregation ==
    op = "wcswidthCjk" =>
      LET chars == WithinLimit(arg, lim)
          ws == [i \in DOMAIN chars |-> wcwidthCjk(chars[i])]
      IN result = (IF \E i \in DOMAIN ws : ws[i] < 0 THEN -1 ELSE SumSeq(ws))

\* DEGREE SIGN and a letter measured in the CJK mode: 2 + 1
C12_Witness ==
    /\ op = "wcswidthCjk" /\ lim = << >>
    /\ arg = <<\H00B0, \H61>>
    /\ result = 3
    /\ wcswidth(arg, lim) = 2

\* C13: wcwidth and wcwidthCjk of the empty string return -1, and wcswidth
\* and wcswidthCjk return -1 as soon as a classification within the limit
\* is -1: that character is the last one classified.
C13_InvalidIsAValue ==
    /\ (op \in {"wcwidth", "wcwidthCjk"} /\ arg = << >>) => result = -1
    /\ op = "wcswidth" =>
         \A i \in DOMAIN classified :
            wcwidth(classified[i]) < 0 => (result = -1 /\ i = Len(classified))
    /\ op = "wcswidthCjk" =>
         \A i \in DOMAIN classified :
            wcwidthCjk(classified[i]) < 0 => (result = -1 /\ i = Len(classified))

\* wcwidthCjk has been called with the empty string
C13_Witness ==
    op = "wcwidthCjk" /\ arg = << >> /\ result = -1

\* C14: wcwidth of a lone surrogate is -1, and wcswidth of a string with a
\* lone surrogate within the limit is -1.
C14_LoneSurrogateIsInvalid ==
    /\ (op = "wcwidth" /\ IsLoneSurrogate(arg)) => result = -1
    /\ op = "wcswidth" =>
         ((\E i \in DOMAIN WithinLimit(arg, lim) :
              IsLoneSurrogate(WithinLimit(arg, lim)[i]))
          => result = -1)

\* the download of a URL has failed: a request error, or a response with a
\* status other than 200
DownloadFailed(url) ==
    \/ downloads[url].failed
    \/ downloads[url].promise # "pending" /\ downloads[url].statusCode # 200

\* C15: once one of the four downloads has failed, main writes neither
\* combining.ts nor ambiguous.ts: the rest of main is never run, the handler
\* of main().catch is what runs next, and the process exits with status 1.
C15_NoWriteAfterFailedDownload ==
    (\E u \in Urls : DownloadFailed(u))
    => /\ written = {}
       /\ pc \in {"downloading", "exited"}
       /\ pc = "downloading" => (ENABLED Catch /\ ~ENABLED Resume)
       /\ pc = "exited" => exitCode = <<1>>

\* EastAsianWidth.txt was answered with 404 after the other three files had
\* arrived, and the process has exited with status 1 and no file
C15_Witness ==
    /\ downloads["EAW"].statusCode = 404
    /\ \A u \in Urls \ {"EAW"} : downloads[u].promise = "fulfilled"
    /\ pc = "exited"
    /\ exitCode = <<1>>
    /\ written = {}

\* a line the parser of its file cannot read: no hexadecimal code point in
\* UnicodeData.txt, no `start[..end] ; property` in the other files
IsMalformedLine(line) ==
    IF "cp" \in DOMAIN line THEN line.cp = NaN ELSE ~Matches(line)

\* C16: when a downloaded UCD text holds a malformed line, the generator
\* writes no artifact.
C16_MalformedInputAborts ==
    (\E u \in Urls :
        /\ downloads[u].promise = "fulfilled"
        /\ \E i \in DOMAIN downloads[u].data : IsMalformedLine(downloads[u].data[i]))
    => written = {}

Listed(cp) ==
    \/ \E i \in DOMAIN rawUnicodeData :
          rawUnicodeData[i].category = "Cf" /\ rawUnicodeData[i].cp = cp
    \/ \E i \in DOMAIN rawCoreProps :
          /\ Matches(rawCoreProps[i])
          /\ rawCoreProps[i].prop \in {"Grapheme_Extend", "Variation_Selector",
                                       "Default_Ignorable_Code_Point"}
          /\ rawCoreProps[i].start <= cp /\ cp <= rawCoreProps[i].end
    \/ \E i \in DOMAIN rawHangul :
          /\ Matches(rawHangul[i])
          /\ rawHangul[i].type \in {"V", "T"}
          /\ rawHangul[i].start <= cp /\ cp <= rawHangul[i].end

TestBit(map, cp) ==
    BitAnd(UShiftRight(Lookup(map, ShiftRight(cp, 5)), And31(cp)), 1) = 1

\* the code points of Pool and their neighbours
Probes ==
    Pool \cup {cp + 1 : cp \in Pool \ {\H10FFFF}} \cup {cp - 1 : cp \in Pool \ {0}}

Near(idx) ==
    {k \in DOMAIN ambiguous :
        ambiguous[k][1] <= idx * 32 + 31 /\ ambiguous[k][2] >= idx * 32}

\* C20: for each code point cp, bit cp & 31 of ambiguous(cp >> 5), as
\* ambiguous.ts answers it, is 1 exactly when cp lies in an interval of the
\* table of wcwidthCjk; so a block a dense-range shortcut answers with -1
\* lies wholly in the table, and a block answered with 0 wholly outside.
C20_AccessorIsTable ==
    op = "ambiguous"
    => \E near \in {Near(arg[1])} :
          \A i \in 0..31 :
             0 \in UShiftRightBits(result, And31(arg[1] * 32 + i))
             <=> \E k \in near : /\ ambiguous[k][1] <= arg[1] * 32 + i
                                 /\ arg[1] * 32 + i <= ambiguous[k][2]

\* block 33 (U+0420..U+043F, inside the Cyrillic interval) was answered by
\* the first shortcut
C20_Witness ==
    /\ op = "ambiguous"
    /\ arg = <<33>>
    /\ result = -1
    /\ 33 \notin DOMAIN ambiguousMap
    /\ InAmbiguous(\H0420) /\ InAmbiguous(\H043F)

\* block idx is stored with the all-ones mask and so is a neighbour of it
InStoredDenseRun(map, idx) ==
    /\ idx \in DOMAIN map
    /\ map[idx] = -1
    /\ \E next \in {idx - 1, idx + 1} : next \in DOMAIN map /\ map[next] = -1

\* C21: the maps the generator writes store no all-ones block that belongs
\* to a run of two or more consecutive all-ones blocks.
C21_DenseRunsAreCollapsed ==
    /\ \A idx \in DOMAIN ambiguousTs : ~InStoredDenseRun(ambiguousTs, idx)
    /\ \A idx \in DOMAIN combiningMap : ~InStoredDenseRun(combiningMap, idx)

\* C28: whenever main is not in the middle of its two writes, and so when the
\* process has ended, either both combining.ts and ambiguous.ts have been
\* written or neither has.
C28_BothArtifactsOrNeither ==
    written \in {{}, {"combining.ts", "ambiguous.ts"}}

\* the uint32 at byte offset off of the table, from its four bytes
Field(off) ==
    TABLE[off + 1] + 256 * (TABLE[off + 2] + 256 * (TABLE[off + 3] + 256 * TABLE[off + 4]))

\* the stage-1 entry of cp; the header gives shift1 at byte 0
Stage1Entry(cp) == Field(20 + 4 * (cp \div 2^Field(0)))

\* the stage-2 entry of cp in the row at offset2; shift2 is at byte 8 and
\* mask2, one less than a power of two, at byte 12
Stage2Entry(cp, offset2) ==
    Field(offset2 + 4 * ((cp \div 2^Field(8)) % (Field(12) + 1)))

\* C22: the lookup gives the sentinel 0xFF when cp >>> shift1 >= bound1, when
\* the stage-1 entry is 0 or when the stage-2 entry is 0, and the byte at
\* offset3 + (cp & mask3) otherwise; the table-backed wcwidth is -1 for the
\* empty string and for the sentinel and the looked-up byte otherwise.
C22_LookupWalksThreeStages ==
    op = "wcwidthTable"
    => IF Len(arg) = 0 THEN result = -1
       ELSE LET cp == CalledCp
                looked == wcwidthTableLookup(cp)
            IN /\ (looked = \HFF) <=> (result = -1)
               /\ looked # \HFF => result = looked
               /\ IF cp \div 2^Field(0) >= Field(4) THEN looked = \HFF
                  ELSE IF Stage1Entry(cp) = 0 THEN looked = \HFF
                  ELSE IF Stage2Entry(cp, Stage1Entry(cp)) = 0 THEN looked = \HFF
                  ELSE looked = TABLE[Stage2Entry(cp, Stage1Entry(cp))
                                      + (cp % (Field(16) + 1)) + 1]

\* U+0300 in a table with a stage-2 row for plane 0 and no stage-3 row for
\* block 3: the stage-2 entry is 0 and wcwidth is -1
C22_Witness ==
    /\ op = "wcwidthTable" /\ arg = <<\H0300>>
    /\ build = 2
    /\ Stage1Entry(\H0300) # 0
    /\ Stage2Entry(\H0300, Stage1Entry(\H0300)) = 0
    /\ result = -1

\* the insertion orders of the elements of the set `set`
Orders(set) ==
    {other \in [DOMAIN set -> Range(set)] :
        \A i, j \in DOMAIN other : i # j => other[i] # other[j]}

IsSorted(table) ==
    /\ \A k \in DOMAIN table : table[k][1] <= table[k][2]
    /\ \A k \in 1..(Len(table) - 1) : table[k][2] < table[k + 1][1]

\* C24: the ambiguous table of wcwidthCjk is sorted and non-overlapping, and
\* on it (and on a prefix of it) bisearch returns 1 exactly when an interval
\* holds the code point, also below the first and above the last interval.
C24_BisearchFindsMembers ==
    op = "bisearch"
    => /\ IsSorted(ambiguous)
       /\ result \in {0, 1}
       /\ result = 1
          <=> \E k \in DOMAIN arg[2] : arg[2][k][1] <= arg[1] /\ arg[1] <= arg[2][k][2]

\* U+10FFFD, the end of the last interval, was found in the whole table
C24_Witness ==
    /\ op = "bisearch"
    /\ arg = <<\H10FFFD, ambiguous>>
    /\ result = 1

\* the largest k with 2^k <= n
Log2Floor(n) == CHOOSE k \in 0..30 : 2^k <= n /\ n < 2 * 2^k

\* C25: a call of bisearch enters the body of its loop at most
\* floor(log2(length of the table)) + 1 times, each time with a window
\* max - min smaller than the time before; after the last time it returns,
\* with 1 when the middle interval holds the code point and 0 when the
\* window has become empty.
C25_BisearchShrinksItsWindow ==
    op = "bisearch"
    => \E windows \in {bisearchTrace(arg[1], arg[2])} :
          /\ Len(windows) <= Log2Floor(Len(arg[2])) + 1
          /\ \A i \in 1..(Len(windows) - 1) :
                /\ windows[i + 1][2] - windows[i + 1][1] < windows[i][2] - windows[i][1]
                /\ windows[i][1] <= windows[i + 1][1]
                /\ windows[i + 1][2] <= windows[i][2]
          /\ result = 1
             <=> /\ Len(windows) > 0
                 /\ \E last \in {windows[Len(windows)]} :
                       \E mid \in {((last[1] + last[2]) \div 2) + 1} :
                          arg[2][mid][1] <= arg[1] /\ arg[1] <= arg[2][mid][2]

\* a search of the whole table that used all of its 8 iterations and ended
\* with an empty window
C25_Witness ==
    /\ op = "bisearch"
    /\ arg[2] = ambiguous
    /\ Len(bisearchTrace(arg[1], arg[2])) = Log2Floor(Len(ambiguous)) + 1
    /\ result = 0

\* C26: wcwidthCjk is -1 exactly when wcwidth is, and is never below it; the
\* ambiguous table starts at U+00A1, above every control character; so
\* wcswidthCjk is -1 exactly when wcswidth is, and is never below it.
C26_CjkKeepsPrintability ==
    /\ op = "wcwidthCjk"
       => /\ \A k \in DOMAIN ambiguous : ambiguous[k][1] >= \HA1
          /\ \E w \in {wcwidth(arg)} : (result = -1 <=> w = -1) /\ result >= w
    /\ op = "wcswidthCjk"
       => \E w \in {wcswidth(arg, lim)} : (result = -1 <=> w = -1) /\ result >= w

\* a string with a control character after an ambiguous one: -1 in both
\* modes, the ambiguous character having been classified first
C26_Witness ==
    /\ op = "wcswidthCjk"
    /\ arg = <<\HB0, \H07, \H61>>
    /\ lim = << >>
    /\ InAmbiguous(\HB0)
    /\ result = -1
    /\ wcswidth(arg, lim) = -1
    /\ wcswidthCjk(<<\HB0>>, lim) > wcswidth(<<\HB0>>, lim)

\* the aggregator of the call in progress, applied to another string
Measure(str, n) ==
    IF op = "wcswidthTable" THEN wcswidthTable(str, n) ELSE wcswidth(str, n)

\* the value returned is -1 when a part has width -1, else the sum of the
\* widths of the parts arg[1..k] and arg[k+1..]
AdditiveAt(k) ==
    \E ws \in {Measure(SubSeq(arg, 1, k), << >>)},
       wt \in {Measure(SubSeq(arg, k + 1, Len(arg)), << >>)} :
       result = IF ws = -1 \/ wt = -1 THEN -1 ELSE ws + wt

\* with a limit n, on a string whose first n + 1 code points are printable
\* (so on every string without an unprintable one): the width is between 0
\* and 2 * min(n, number of code points) and does not exceed the width with
\* the limit n + 1
BoundedAndMonotone ==
    lim # << >>
    => \E more \in {Measure(arg, <<lim[1] + 1>>)} :
          more # -1
          => /\ 0 <= result
             /\ result <= 2 * lim[1]
             /\ result <= 2 * Len(StringIterator(arg))
             /\ result <= more

\* position k of arg separates a high surrogate from the low surrogate that
\* follows it
SplitsPair(k) ==
    /\ 1 <= k /\ k < Len(arg)
    /\ IsHighSurrogate(arg[k]) /\ IsLowSurrogate(arg[k + 1])

\* C27 as stated: wcswidth of s followed by t is -1 when wcswidth of s or of
\* t is -1 and the sum of the two otherwise, for every s and t; with a limit
\* the width is bounded and non-decreasing in the limit.
C27_AdditiveOnEverySplit ==
    op \in {"wcswidth", "wcswidthTable"}
    => /\ lim = << >> => \A k \in 0..Len(arg) : AdditiveAt(k)
       /\ BoundedAndMonotone

\* C27 as amended: the same, for every s and t such that s does not end
\* with a high surrogate that the low surrogate at the start of t completes.
C27_AdditiveOnCodePointSplits ==
    op \in {"wcswidth", "wcswidthTable"}
    => /\ lim = << >> => \A k \in 0..Len(arg) : ~SplitsPair(k) => AdditiveAt(k)
       /\ BoundedAndMonotone

\* `a` followed by U+1F60A: width 1 + 1, the sum over the split after `a`
C27_Witness ==
    /\ op = "wcswidth"
    /\ arg = <<\H61, \HD83D, \HDE0A>>
    /\ lim = << >>
    /\ ~SplitsPair(1) /\ SplitsPair(2)
    /\ result = wcswidth(<<\H61>>, << >>) + wcswidth(<<\HD83D, \HDE0A>>, << >>)
    /\ result = 2

=============================================================================
